---- MODULE Spec2Model ----
(***************************************************************************)
(* The threaded buffers of devel2013: BufferThreaded (BufferThreaded1.cpp), *)
(* BufferThread<TestPacket, TestInterface> (BufferThreadedP.h with          *)
(* PacketExample.cpp) and IOBuffer (IOBuffer.h).  One object of one of the  *)
(* three classes is constructed (cls), its worker is started by             *)
(* spawnThreads() or runContinuous() (mode), caller threads call its        *)
(* public methods, and the destructor cancels and joins the worker.  A      *)
(* caller may also copy-construct a second BufferThreaded from it (newBuf). *)
(* Every pthread call and every statement on shared data is one step.       *)
(***************************************************************************)
EXTENDS Integers, Sequences, FiniteSets, TLC

\* Number of caller threads.
NCallers == 2
\* Cap on accepted readData() calls and on producer invocations.
MaxCycles == 2

\* Thread identities: callers are 1..NCallers, the worker is read_thread.
Callers == 1..NCallers
W == 0
\* A mutex nobody holds (the state pthread_mutex_init leaves).
Free == -1

\* Packet values.  A TestPacket is identified by its numItems (its data is
\* 0..numItems-1); IOBuffer packets are integers.
Empty == 0
\* The state std::move leaves a packet in ("no longer valid").
Invalid == -1
\* The inputs callers hand to providePacket.
Inputs == {5, 9}

VARIABLES
  cls, mode, nthreads, newBuf,
  bUpdating,
  data, numItems, tStamp,
  pkt, srcItems,
  ipkt, opkt, idata_new, odata_new,
  upfl_mtx, data_mtx, idata_mtx, odata_mtx, ipkt_lk,
  signalled,
  wpc, bUpl, pkl, tStampl, ipkl, opkl,
  cancelReq, dpc, exitAt,
  cpc, retval, retn, dataIn, cpkt, input,
  accepted, started, provided, lastIn, outPending

objv == <<cls, mode, nthreads, newBuf>>
btv == <<data, numItems, tStamp>>
bpv == <<pkt, srcItems>>
iov == <<ipkt, opkt, idata_new, odata_new>>
mtxv == <<upfl_mtx, data_mtx, idata_mtx, odata_mtx, ipkt_lk>>
wlocv == <<bUpl, pkl, tStampl, ipkl, opkl>>
tdv == <<cancelReq, dpc, exitAt>>
clocv == <<retval, retn, dataIn, cpkt, input>>
ghostv == <<accepted, started, provided, lastIn, outPending>>

vars == <<objv, bUpdating, btv, bpv, iov, mtxv, signalled, wpc, wlocv, tdv,
          cpc, clocv, ghostv>>

\* The array readFromSensor / TestInterface::getPacket fill: data[i] = i.
Iota(n) == [i \in 1..n |-> i - 1]

\* delete[] data leaves the pointer dangling.
Dangling == <<Invalid>>

\* The transform of the pipeline scenario: x -> x*2.
RunProcess(x) == 2 * x

Classes == {"BufferThreaded", "BufferThread", "IOBuffer"}

\* The data pointer of an object whose constructor never assigned it.
Wild == <<Invalid>>

\* The object main() builds with new BufferThreaded(buf), before its
\* constructor has run: no member has a value yet.
NoCopy ==
  [state |-> "none", numItems |-> 0, data |-> Wild, tStamp |-> 0,
   bUpdating |-> FALSE]

\* The state after the constructor.  BufferThreaded() leaves tStamp
\* uninitialised, IOBuffer() leaves idata_new and odata_new uninitialised.
InitOf(K) ==
  /\ cls \in K
  /\ mode = "none"
  /\ nthreads = 0
  /\ newBuf = NoCopy
  /\ bUpdating = FALSE
  /\ data = << >>
  /\ numItems = 0
  /\ tStamp \in (IF cls = "BufferThreaded" THEN 0..MaxCycles ELSE {0})
  /\ pkt = Empty
  /\ srcItems = 0
  /\ ipkt = Empty
  /\ opkt = Empty
  /\ idata_new \in (IF cls = "IOBuffer" THEN BOOLEAN ELSE {FALSE})
  /\ odata_new \in (IF cls = "IOBuffer" THEN BOOLEAN ELSE {FALSE})
  /\ upfl_mtx = Free
  /\ data_mtx = Free
  /\ idata_mtx = Free
  /\ odata_mtx = Free
  /\ ipkt_lk = Free
  /\ signalled = FALSE
  /\ wpc = "unstarted"
  /\ bUpl = FALSE
  /\ pkl = Empty
  /\ tStampl = 0
  /\ ipkl = Empty
  /\ opkl = Empty
  /\ cancelReq = FALSE
  /\ dpc = "live"
  /\ exitAt = "none"
  /\ cpc = [c \in Callers |-> "idle"]
  /\ retval = [c \in Callers |-> FALSE]
  /\ retn = [c \in Callers |-> 0]
  /\ dataIn = [c \in Callers |-> << >>]
  /\ cpkt = [c \in Callers |-> Empty]
  /\ input = [c \in Callers |-> Empty]
  /\ accepted = 0
  /\ started = 0
  /\ provided = {}
  /\ lastIn = Empty
  /\ outPending = FALSE

Init == InitOf(Classes)

----------------------------------------------------------------------------
\* Starting the worker.

\* spawnThreads(): pthread_create of threadMeth.
SpawnThreads ==
  /\ cls \in {"BufferThreaded", "BufferThread"}
  /\ mode = "none"
  /\ dpc = "live"
  /\ mode' = "triggered"
  /\ nthreads' = 1
  /\ wpc' = "t_lock"
  /\ UNCHANGED <<cls, newBuf, bUpdating, btv, bpv, iov, mtxv, signalled,
                 wlocv, tdv, cpc, clocv, ghostv>>

\* runContinuous(): pthread_create of tmContinuous.
RunContinuous ==
  /\ cls \in {"BufferThread", "IOBuffer"}
  /\ mode = "none"
  /\ dpc = "live"
  /\ mode' = "continuous"
  /\ nthreads' = 1
  /\ wpc' = IF cls = "IOBuffer" THEN "io_ulock" ELSE "c_lock"
  /\ UNCHANGED <<cls, newBuf, bUpdating, btv, bpv, iov, mtxv, signalled,
                 wlocv, tdv, cpc, clocv, ghostv>>

\* spawnThreads() or runContinuous() called on an object that was started
\* already.  Neither method looks at the state of the object: pthread_create
\* runs again, read_thread is overwritten, and a second thread runs a worker
\* loop on the same fields.  The methods' comments call the result
\* undefined; the model records the second thread and follows the object no
\* further.
StartAgain ==
  /\ mode # "none"
  /\ nthreads = 1
  /\ dpc = "live"
  /\ nthreads' = nthreads + 1
  /\ wpc' = "undefined"
  /\ dpc' = "undefined"
  /\ UNCHANGED <<cls, mode, newBuf, bUpdating, btv, bpv, iov, mtxv, signalled,
                 wlocv, cancelReq, exitAt, cpc, clocv, ghostv>>

----------------------------------------------------------------------------
\* Caller threads.  A caller is between calls ("idle") or inside one call;
\* calls are made on a live object only.

CanCall(c) == dpc = "live" /\ cpc[c] = "idle"

At(c, p) == cpc[c] = p

Goto(c, p) == cpc' = [cpc EXCEPT ![c] = p]

\* The process ends with all its threads, wherever they are.
Abort ==
  /\ exitAt' = wpc
  /\ wpc' = "aborted"
  /\ dpc' = "aborted"
  /\ cpc' = [c \in Callers |-> "aborted"]

\* isUpdating(), the same in the three classes.
IU_Lock(c) ==
  /\ CanCall(c)
  /\ upfl_mtx = Free
  /\ upfl_mtx' = c
  /\ Goto(c, "iu_read")
  /\ UNCHANGED <<objv, bUpdating, btv, bpv, iov, data_mtx, idata_mtx,
                 odata_mtx, ipkt_lk, signalled, wpc, wlocv, tdv, clocv, ghostv>>

IU_Read(c) ==
  /\ At(c, "iu_read")
  /\ retval' = [retval EXCEPT ![c] = bUpdating]
  /\ Goto(c, "iu_unlock")
  /\ UNCHANGED <<objv, bUpdating, btv, bpv, iov, mtxv, signalled, wpc, wlocv,
                 tdv, retn, dataIn, cpkt, input, ghostv>>

IU_Unlock(c) ==
  /\ At(c, "iu_unlock")
  /\ upfl_mtx' = Free
  /\ Goto(c, "iu_ret")
  /\ UNCHANGED <<objv, bUpdating, btv, bpv, iov, data_mtx, idata_mtx,
                 odata_mtx, ipkt_lk, signalled, wpc, wlocv, tdv, clocv, ghostv>>

\* readData() of BufferThreaded and BufferThread.
HasReadData == cls \in {"BufferThreaded", "BufferThread"}

RD_Lock(c) ==
  /\ CanCall(c)
  /\ HasReadData
  /\ accepted < MaxCycles
  /\ upfl_mtx = Free
  /\ upfl_mtx' = c
  /\ Goto(c, "rd_test")
  /\ UNCHANGED <<objv, bUpdating, btv, bpv, iov, data_mtx, idata_mtx,
                 odata_mtx, ipkt_lk, signalled, wpc, wlocv, tdv, clocv, ghostv>>

\* if (bUpdating): an update is in progress, the call is dropped.
ReadDataBusy_always_accept == FALSE

ReadDataBusy == bUpdating

RD_Test(c) ==
  /\ At(c, "rd_test")
  /\ IF ReadDataBusy
       THEN /\ Goto(c, "rd_drop")
            /\ UNCHANGED <<bUpdating, accepted>>
       ELSE /\ bUpdating' = TRUE
            /\ accepted' = accepted + 1
            /\ Goto(c, "rd_acc")
  /\ UNCHANGED <<objv, btv, bpv, iov, mtxv, signalled, wpc, wlocv, tdv,
                 clocv, started, provided, lastIn, outPending>>

RD_UnlockDrop(c) ==
  /\ At(c, "rd_drop")
  /\ upfl_mtx' = Free
  /\ Goto(c, "idle")
  /\ UNCHANGED <<objv, bUpdating, btv, bpv, iov, data_mtx, idata_mtx,
                 odata_mtx, ipkt_lk, signalled, wpc, wlocv, tdv, clocv, ghostv>>

RD_UnlockAcc(c) ==
  /\ At(c, "rd_acc")
  /\ upfl_mtx' = Free
  /\ Goto(c, "rd_signal")
  /\ UNCHANGED <<objv, bUpdating, btv, bpv, iov, data_mtx, idata_mtx,
                 odata_mtx, ipkt_lk, signalled, wpc, wlocv, tdv, clocv, ghostv>>

\* pthread_cond_signal wakes the worker if it is blocked in the wait on this
\* condition variable and has no effect otherwise.
CondSignal(blocked) == signalled' = (signalled \/ wpc = blocked)

RD_Signal(c) ==
  /\ At(c, "rd_signal")
  /\ CondSignal("t_blocked")
  /\ Goto(c, "idle")
  /\ UNCHANGED <<objv, bUpdating, btv, bpv, iov, mtxv, wpc, wlocv, tdv,
                 clocv, ghostv>>

\* BufferThreaded::getData(int** dataIn).
GD_Lock(c) ==
  /\ CanCall(c)
  /\ cls = "BufferThreaded"
  /\ data_mtx = Free
  /\ data_mtx' = c
  /\ Goto(c, "gd_copy")
  /\ UNCHANGED <<objv, bUpdating, btv, bpv, iov, upfl_mtx, idata_mtx,
                 odata_mtx, ipkt_lk, signalled, wpc, wlocv, tdv, clocv, ghostv>>

GD_Copy(c) ==
  /\ At(c, "gd_copy")
  /\ dataIn' = [dataIn EXCEPT ![c] = [i \in 1..numItems |-> data[i]]]
  /\ Goto(c, "gd_unlock")
  /\ UNCHANGED <<objv, bUpdating, btv, bpv, iov, mtxv, signalled, wpc, wlocv,
                 tdv, retval, retn, cpkt, input, ghostv>>

GD_Unlock(c) ==
  /\ At(c, "gd_unlock")
  /\ data_mtx' = Free
  /\ Goto(c, "gd_count")
  /\ UNCHANGED <<objv, bUpdating, btv, bpv, iov, upfl_mtx, idata_mtx,
                 odata_mtx, ipkt_lk, signalled, wpc, wlocv, tdv, clocv, ghostv>>

\* return numItems; after the unlock.
GD_Count(c) ==
  /\ At(c, "gd_count")
  /\ retn' = [retn EXCEPT ![c] = numItems]
  /\ Goto(c, "gd_ret")
  /\ UNCHANGED <<objv, bUpdating, btv, bpv, iov, mtxv, signalled, wpc, wlocv,
                 tdv, retval, dataIn, cpkt, input, ghostv>>

\* BufferThreaded(const BufferThreaded &other), run by a caller thread as
\* in main(): new BufferThreaded(buf).  One copy is followed.
\* pthread_mutex_lock(&(other.data_mtx));
CC_Lock(c) ==
  /\ CanCall(c)
  /\ cls = "BufferThreaded"
  /\ newBuf.state = "none"
  /\ data_mtx = Free
  /\ data_mtx' = c
  /\ newBuf' = [newBuf EXCEPT !.state = "building"]
  /\ Goto(c, "cc_count")
  /\ UNCHANGED <<cls, mode, nthreads, bUpdating, btv, bpv, iov, upfl_mtx,
                 idata_mtx, odata_mtx, ipkt_lk, signalled, wpc, wlocv, tdv,
                 clocv, ghostv>>

\* numItems = other.numItems;
CC_Count(c) ==
  /\ At(c, "cc_count")
  /\ newBuf' = [newBuf EXCEPT !.numItems = numItems]
  /\ Goto(c, "cc_copy")
  /\ UNCHANGED <<cls, mode, nthreads, bUpdating, btv, bpv, iov, mtxv,
                 signalled, wpc, wlocv, tdv, clocv, ghostv>>

\* for (i < numItems) data[i] = other.data[i];  with no item the loop body
\* does not run and data stays unassigned.
CC_CopyNone(c) ==
  /\ At(c, "cc_copy")
  /\ newBuf.numItems = 0
  /\ Goto(c, "cc_stamp")
  /\ UNCHANGED <<objv, bUpdating, btv, bpv, iov, mtxv, signalled, wpc, wlocv,
                 tdv, clocv, ghostv>>

\* The loop body writes through the data pointer of the new object, which
\* no statement of this constructor assigns.  The writes land in memory the
\* process may write, and the new object reads the items back ...
CC_CopyLands(c) ==
  /\ At(c, "cc_copy")
  /\ newBuf.numItems > 0
  /\ newBuf' = [newBuf EXCEPT !.data = [i \in 1..newBuf.numItems |-> data[i]]]
  /\ Goto(c, "cc_stamp")
  /\ UNCHANGED <<cls, mode, nthreads, bUpdating, btv, bpv, iov, mtxv,
                 signalled, wpc, wlocv, tdv, clocv, ghostv>>

\* ... or the first write faults and the signal ends the process with all
\* its threads, other.data_mtx still locked.
CC_CopyFaults(c) ==
  /\ At(c, "cc_copy")
  /\ newBuf.numItems > 0
  /\ newBuf' = [newBuf EXCEPT !.state = "faulted"]
  /\ Abort
  /\ UNCHANGED <<cls, mode, nthreads, bUpdating, btv, bpv, iov, mtxv,
                 signalled, wlocv, cancelReq, clocv, ghostv>>

\* tStamp = other.tStamp;
CC_Stamp(c) ==
  /\ At(c, "cc_stamp")
  /\ newBuf' = [newBuf EXCEPT !.tStamp = tStamp]
  /\ Goto(c, "cc_unlock")
  /\ UNCHANGED <<cls, mode, nthreads, bUpdating, btv, bpv, iov, mtxv,
                 signalled, wpc, wlocv, tdv, clocv, ghostv>>

\* pthread_mutex_unlock(&(other.data_mtx));
CC_Unlock(c) ==
  /\ At(c, "cc_unlock")
  /\ data_mtx' = Free
  /\ Goto(c, "cc_init")
  /\ UNCHANGED <<objv, bUpdating, btv, bpv, iov, upfl_mtx, idata_mtx,
                 odata_mtx, ipkt_lk, signalled, wpc, wlocv, tdv, clocv, ghostv>>

\* The three pthread_*_init calls on the new object and bUpdating = false;
\* the constructor returns.
CC_Init(c) ==
  /\ At(c, "cc_init")
  /\ newBuf' = [newBuf EXCEPT !.bUpdating = FALSE, !.state = "built"]
  /\ Goto(c, "idle")
  /\ UNCHANGED <<cls, mode, nthreads, bUpdating, btv, bpv, iov, mtxv,
                 signalled, wpc, wlocv, tdv, clocv, ghostv>>

\* BufferThreaded::getTimeStamp().
GT_Lock(c) ==
  /\ CanCall(c)
  /\ cls = "BufferThreaded"
  /\ data_mtx = Free
  /\ data_mtx' = c
  /\ Goto(c, "gt_read")
  /\ UNCHANGED <<objv, bUpdating, btv, bpv, iov, upfl_mtx, idata_mtx,
                 odata_mtx, ipkt_lk, signalled, wpc, wlocv, tdv, clocv, ghostv>>

GT_Read(c) ==
  /\ At(c, "gt_read")
  /\ retn' = [retn EXCEPT ![c] = tStamp]
  /\ Goto(c, "gt_unlock")
  /\ UNCHANGED <<objv, bUpdating, btv, bpv, iov, mtxv, signalled, wpc, wlocv,
                 tdv, retval, dataIn, cpkt, input, ghostv>>

GT_Unlock(c) ==
  /\ At(c, "gt_unlock")
  /\ data_mtx' = Free
  /\ Goto(c, "gt_ret")
  /\ UNCHANGED <<objv, bUpdating, btv, bpv, iov, upfl_mtx, idata_mtx,
                 odata_mtx, ipkt_lk, signalled, wpc, wlocv, tdv, clocv, ghostv>>

\* BufferThread::getPacket().
GP_Lock(c) ==
  /\ CanCall(c)
  /\ cls = "BufferThread"
  /\ data_mtx = Free
  /\ data_mtx' = c
  /\ Goto(c, "gp_copy")
  /\ UNCHANGED <<objv, bUpdating, btv, bpv, iov, upfl_mtx, idata_mtx,
                 odata_mtx, ipkt_lk, signalled, wpc, wlocv, tdv, clocv, ghostv>>

\* pkl = pkt is TestPacket::operator=(const TestPacket& other): a deep copy
\* that leaves other as it was (a move would leave it invalid).
CopiedFrom_moved(p) == Invalid

CopiedFrom(p) == p

GP_Copy(c) ==
  /\ At(c, "gp_copy")
  /\ cpkt' = [cpkt EXCEPT ![c] = pkt]
  /\ pkt' = CopiedFrom(pkt)
  /\ Goto(c, "gp_unlock")
  /\ UNCHANGED <<objv, bUpdating, btv, srcItems, iov, mtxv, signalled, wpc,
                 wlocv, tdv, retval, retn, dataIn, input, ghostv>>

GP_Unlock(c) ==
  /\ At(c, "gp_unlock")
  /\ data_mtx' = Free
  /\ Goto(c, "gp_ret")
  /\ UNCHANGED <<objv, bUpdating, btv, bpv, iov, upfl_mtx, idata_mtx,
                 odata_mtx, ipkt_lk, signalled, wpc, wlocv, tdv, clocv, ghostv>>

\* IOBuffer::isInputUnsed().
II_Lock(c) ==
  /\ CanCall(c)
  /\ cls = "IOBuffer"
  /\ idata_mtx = Free
  /\ idata_mtx' = c
  /\ Goto(c, "ii_read")
  /\ UNCHANGED <<objv, bUpdating, btv, bpv, iov, upfl_mtx, data_mtx,
                 odata_mtx, ipkt_lk, signalled, wpc, wlocv, tdv, clocv, ghostv>>

II_Read(c) ==
  /\ At(c, "ii_read")
  /\ retval' = [retval EXCEPT ![c] = idata_new]
  /\ Goto(c, "ii_unlock")
  /\ UNCHANGED <<objv, bUpdating, btv, bpv, iov, mtxv, signalled, wpc, wlocv,
                 tdv, retn, dataIn, cpkt, input, ghostv>>

II_Unlock(c) ==
  /\ At(c, "ii_unlock")
  /\ idata_mtx' = Free
  /\ Goto(c, "ii_ret")
  /\ UNCHANGED <<objv, bUpdating, btv, bpv, iov, upfl_mtx, data_mtx,
                 odata_mtx, ipkt_lk, signalled, wpc, wlocv, tdv, clocv, ghostv>>

\* IOBuffer::isOutputNew().
ON_Lock(c) ==
  /\ CanCall(c)
  /\ cls = "IOBuffer"
  /\ odata_mtx = Free
  /\ odata_mtx' = c
  /\ Goto(c, "on_read")
  /\ UNCHANGED <<objv, bUpdating, btv, bpv, iov, upfl_mtx, data_mtx,
                 idata_mtx, ipkt_lk, signalled, wpc, wlocv, tdv, clocv, ghostv>>

ON_Read(c) ==
  /\ At(c, "on_read")
  /\ retval' = [retval EXCEPT ![c] = odata_new]
  /\ Goto(c, "on_unlock")
  /\ UNCHANGED <<objv, bUpdating, btv, bpv, iov, mtxv, signalled, wpc, wlocv,
                 tdv, retn, dataIn, cpkt, input, ghostv>>

ON_Unlock(c) ==
  /\ At(c, "on_unlock")
  /\ odata_mtx' = Free
  /\ Goto(c, "on_ret")
  /\ UNCHANGED <<objv, bUpdating, btv, bpv, iov, upfl_mtx, data_mtx,
                 idata_mtx, ipkt_lk, signalled, wpc, wlocv, tdv, clocv, ghostv>>

\* IOBuffer::providePacket(InputPacket input).
PP_Lock(c) ==
  /\ CanCall(c)
  /\ cls = "IOBuffer"
  /\ idata_mtx = Free
  /\ idata_mtx' = c
  /\ \E v \in Inputs : input' = [input EXCEPT ![c] = v]
  /\ Goto(c, "pp_move")
  /\ UNCHANGED <<objv, bUpdating, btv, bpv, iov, upfl_mtx, data_mtx,
                 odata_mtx, ipkt_lk, signalled, wpc, wlocv, tdv, retval, retn,
                 dataIn, cpkt, ghostv>>

\* ipkt = std::move(input);
PP_Move(c) ==
  /\ At(c, "pp_move")
  /\ ipkt' = input[c]
  /\ input' = [input EXCEPT ![c] = Invalid]
  /\ provided' = provided \cup {input[c]}
  /\ lastIn' = input[c]
  /\ Goto(c, "pp_flag")
  /\ UNCHANGED <<objv, bUpdating, btv, bpv, opkt, idata_new, odata_new, mtxv,
                 signalled, wpc, wlocv, tdv, retval, retn, dataIn, cpkt,
                 accepted, started, outPending>>

PP_Flag(c) ==
  /\ At(c, "pp_flag")
  /\ idata_new' = TRUE
  /\ Goto(c, "pp_unlock")
  /\ UNCHANGED <<objv, bUpdating, btv, bpv, ipkt, opkt, odata_new, mtxv,
                 signalled, wpc, wlocv, tdv, clocv, ghostv>>

PP_Unlock(c) ==
  /\ At(c, "pp_unlock")
  /\ idata_mtx' = Free
  /\ Goto(c, "pp_signal")
  /\ UNCHANGED <<objv, bUpdating, btv, bpv, iov, upfl_mtx, data_mtx,
                 odata_mtx, ipkt_lk, signalled, wpc, wlocv, tdv, clocv, ghostv>>

PP_Signal(c) ==
  /\ At(c, "pp_signal")
  /\ CondSignal("io_blocked")
  /\ input' = [input EXCEPT ![c] = Empty]
  /\ Goto(c, "idle")
  /\ UNCHANGED <<objv, bUpdating, btv, bpv, iov, mtxv, wpc, wlocv, tdv,
                 retval, retn, dataIn, cpkt, ghostv>>

\* IOBuffer::getPacket(OutputPacket* output); cpkt[c] is *output.
GO_Lock(c) ==
  /\ CanCall(c)
  /\ cls = "IOBuffer"
  /\ odata_mtx = Free
  /\ odata_mtx' = c
  /\ retval' = [retval EXCEPT ![c] = TRUE]
  /\ Goto(c, "go_test")
  /\ UNCHANGED <<objv, bUpdating, btv, bpv, iov, upfl_mtx, data_mtx,
                 idata_mtx, ipkt_lk, signalled, wpc, wlocv, tdv, retn, dataIn,
                 cpkt, input, ghostv>>

GO_Test(c) ==
  /\ At(c, "go_test")
  /\ IF odata_new
       THEN /\ Goto(c, "go_move")
            /\ UNCHANGED retval
       ELSE /\ retval' = [retval EXCEPT ![c] = FALSE]
            /\ Goto(c, "go_unlock")
  /\ UNCHANGED <<objv, bUpdating, btv, bpv, iov, mtxv, signalled, wpc, wlocv,
                 tdv, retn, dataIn, cpkt, input, ghostv>>

\* *output = std::move(opkt);
GO_Move(c) ==
  /\ At(c, "go_move")
  /\ cpkt' = [cpkt EXCEPT ![c] = opkt]
  /\ opkt' = Invalid
  /\ Goto(c, "go_clear")
  /\ UNCHANGED <<objv, bUpdating, btv, bpv, ipkt, idata_new, odata_new, mtxv,
                 signalled, wpc, wlocv, tdv, retval, retn, dataIn, input,
                 ghostv>>

GO_Clear(c) ==
  /\ At(c, "go_clear")
  /\ odata_new' = FALSE
  /\ outPending' = FALSE
  /\ retval' = [retval EXCEPT ![c] = TRUE]
  /\ Goto(c, "go_unlock")
  /\ UNCHANGED <<objv, bUpdating, btv, bpv, ipkt, opkt, idata_new, mtxv,
                 signalled, wpc, wlocv, tdv, retn, dataIn, cpkt, input,
                 accepted, started, provided, lastIn>>

GO_Unlock(c) ==
  /\ At(c, "go_unlock")
  /\ odata_mtx' = Free
  /\ Goto(c, "go_ret")
  /\ UNCHANGED <<objv, bUpdating, btv, bpv, iov, upfl_mtx, data_mtx,
                 idata_mtx, ipkt_lk, signalled, wpc, wlocv, tdv, clocv, ghostv>>

\* The call has returned; its result has been used and its locals are gone.
RetPcs == {"iu_ret", "gd_ret", "gt_ret", "gp_ret", "ii_ret", "on_ret",
           "go_ret"}

Return(c) ==
  /\ cpc[c] \in RetPcs
  /\ Goto(c, "idle")
  /\ retval' = [retval EXCEPT ![c] = FALSE]
  /\ retn' = [retn EXCEPT ![c] = 0]
  /\ dataIn' = [dataIn EXCEPT ![c] = << >>]
  /\ cpkt' = [cpkt EXCEPT ![c] = Empty]
  /\ input' = [input EXCEPT ![c] = Empty]
  /\ UNCHANGED <<objv, bUpdating, btv, bpv, iov, mtxv, signalled, wpc, wlocv,
                 tdv, ghostv>>

----------------------------------------------------------------------------
\* The worker thread (read_thread).

\* threadMeth() of BufferThreaded and BufferThread: the triggered loop.
T_Lock ==
  /\ wpc = "t_lock"
  /\ upfl_mtx = Free
  /\ upfl_mtx' = W
  /\ wpc' = "t_wait"
  /\ UNCHANGED <<objv, bUpdating, btv, bpv, iov, data_mtx, idata_mtx,
                 odata_mtx, ipkt_lk, signalled, wlocv, tdv, cpc, clocv, ghostv>>

\* pthread_cond_wait(&read_cond, &upfl_mtx): release the mutex and block.
T_WaitEnter ==
  /\ wpc = "t_wait"
  /\ ~cancelReq
  /\ upfl_mtx' = Free
  /\ signalled' = FALSE
  /\ wpc' = "t_blocked"
  /\ UNCHANGED <<objv, bUpdating, btv, bpv, iov, data_mtx, idata_mtx,
                 odata_mtx, ipkt_lk, wlocv, tdv, cpc, clocv, ghostv>>

\* The wait returns: the worker was woken and has the mutex again.
T_Wake ==
  /\ wpc = "t_blocked"
  /\ signalled
  /\ upfl_mtx = Free
  /\ upfl_mtx' = W
  /\ signalled' = FALSE
  /\ wpc' = "t_read"
  /\ UNCHANGED <<objv, bUpdating, btv, bpv, iov, data_mtx, idata_mtx,
                 odata_mtx, ipkt_lk, wlocv, tdv, cpc, clocv, ghostv>>

\* A condition wait may return with no signal sent.
SpuriousWake ==
  /\ wpc \in {"t_blocked", "io_blocked"}
  /\ ~signalled
  /\ signalled' = TRUE
  /\ UNCHANGED <<objv, bUpdating, btv, bpv, iov, mtxv, wpc, wlocv, tdv, cpc,
                 clocv, ghostv>>

T_Read ==
  /\ wpc = "t_read"
  /\ bUpl' = bUpdating
  /\ wpc' = "t_unlock"
  /\ UNCHANGED <<objv, bUpdating, btv, bpv, iov, mtxv, signalled, pkl,
                 tStampl, ipkl, opkl, tdv, cpc, clocv, ghostv>>

T_Unlock ==
  /\ wpc = "t_unlock"
  /\ upfl_mtx' = Free
  /\ wpc' = "t_test"
  /\ UNCHANGED <<objv, bUpdating, btv, bpv, iov, data_mtx, idata_mtx,
                 odata_mtx, ipkt_lk, signalled, wlocv, tdv, cpc, clocv, ghostv>>

\* The first statement of the body of if (bUpl): sleep(5) in BufferThreaded,
\* source->getPacket() in BufferThread.
CycleEntry_skip_store == "t_lock2"

CycleEntry == IF cls = "BufferThreaded" THEN "bt_sleep" ELSE "src_sleep"

\* if (bUpl) { // Is it OK to proceed?
Proceed_always == TRUE

Proceed == bUpl

\* if (bUpl): a production cycle starts.
T_Test ==
  /\ wpc = "t_test"
  /\ IF Proceed
       THEN /\ started' = started + 1
            /\ wpc' = CycleEntry
       ELSE /\ wpc' = "t_lock"
            /\ UNCHANGED started
  /\ UNCHANGED <<objv, bUpdating, btv, bpv, iov, mtxv, signalled, wlocv, tdv,
                 cpc, clocv, accepted, provided, lastIn, outPending>>

\* BufferThreaded: sleep(5), a cancellation point.
BT_Sleep ==
  /\ wpc = "bt_sleep"
  /\ ~cancelReq
  /\ wpc' = "bt_time"
  /\ UNCHANGED <<objv, bUpdating, btv, bpv, iov, mtxv, signalled, wlocv, tdv,
                 cpc, clocv, ghostv>>

\* gettimeofday(&tStampl, NULL): the time is the number of the cycle.
BT_Time ==
  /\ wpc = "bt_time"
  /\ tStampl' = started
  /\ wpc' = "bt_dlock"
  /\ UNCHANGED <<objv, bUpdating, btv, bpv, iov, mtxv, signalled, bUpl, pkl,
                 ipkl, opkl, tdv, cpc, clocv, ghostv>>

BT_DLock ==
  /\ wpc = "bt_dlock"
  /\ data_mtx = Free
  /\ data_mtx' = W
  /\ wpc' = "bt_delete"
  /\ UNCHANGED <<objv, bUpdating, btv, bpv, iov, upfl_mtx, idata_mtx,
                 odata_mtx, ipkt_lk, signalled, wlocv, tdv, cpc, clocv, ghostv>>

\* delete[] data;
BT_Delete ==
  /\ wpc = "bt_delete"
  /\ data' = Dangling
  /\ wpc' = "bt_inc"
  /\ UNCHANGED <<objv, bUpdating, numItems, tStamp, bpv, iov, mtxv, signalled,
                 wlocv, tdv, cpc, clocv, ghostv>>

\* readFromSensor(&data): ++numItems;
BT_SensorInc ==
  /\ wpc = "bt_inc"
  /\ numItems' = numItems + 1
  /\ wpc' = "bt_fill"
  /\ UNCHANGED <<objv, bUpdating, data, tStamp, bpv, iov, mtxv, signalled,
                 wlocv, tdv, cpc, clocv, ghostv>>

\* readFromSensor(&data): *dataIn = new int[numItems], filled; the value
\* returned and assigned to numItems is numItems itself.
BT_SensorFill ==
  /\ wpc = "bt_fill"
  /\ data' = Iota(numItems)
  /\ wpc' = "bt_stamp"
  /\ UNCHANGED <<objv, bUpdating, numItems, tStamp, bpv, iov, mtxv, signalled,
                 wlocv, tdv, cpc, clocv, ghostv>>

BT_Stamp ==
  /\ wpc = "bt_stamp"
  /\ tStamp' = tStampl
  /\ wpc' = "bt_dunlock"
  /\ UNCHANGED <<objv, bUpdating, data, numItems, bpv, iov, mtxv, signalled,
                 wlocv, tdv, cpc, clocv, ghostv>>

BT_DUnlock ==
  /\ wpc = "bt_dunlock"
  /\ data_mtx' = Free
  /\ wpc' = "t_lock2"
  /\ UNCHANGED <<objv, bUpdating, btv, bpv, iov, upfl_mtx, idata_mtx,
                 odata_mtx, ipkt_lk, signalled, wlocv, tdv, cpc, clocv, ghostv>>

\* Report that the update is done.
T_Lock2 ==
  /\ wpc = "t_lock2"
  /\ upfl_mtx = Free
  /\ upfl_mtx' = W
  /\ wpc' = "t_clear"
  /\ UNCHANGED <<objv, bUpdating, btv, bpv, iov, data_mtx, idata_mtx,
                 odata_mtx, ipkt_lk, signalled, wlocv, tdv, cpc, clocv, ghostv>>

T_Clear ==
  /\ wpc = "t_clear"
  /\ bUpdating' = FALSE
  /\ wpc' = "t_unlock2"
  /\ UNCHANGED <<objv, btv, bpv, iov, mtxv, signalled, wlocv, tdv, cpc,
                 clocv, ghostv>>

T_Unlock2 ==
  /\ wpc = "t_unlock2"
  /\ upfl_mtx' = Free
  /\ wpc' = "t_lock"
  /\ UNCHANGED <<objv, bUpdating, btv, bpv, iov, data_mtx, idata_mtx,
                 odata_mtx, ipkt_lk, signalled, wlocv, tdv, cpc, clocv, ghostv>>

\* BufferThread: source->getPacket() is TestInterface::getPacket().
\* sleep(3), a cancellation point.
SRC_Sleep ==
  /\ wpc = "src_sleep"
  /\ ~cancelReq
  /\ srcItems < MaxCycles
  /\ wpc' = "src_make"
  /\ UNCHANGED <<objv, bUpdating, btv, bpv, iov, mtxv, signalled, wlocv, tdv,
                 cpc, clocv, ghostv>>

\* ++numItems; the packet of numItems items is built, returned, and
\* assigned to pkl.
SRC_Make ==
  /\ wpc = "src_make"
  /\ srcItems' = srcItems + 1
  /\ pkl' = srcItems + 1
  /\ wpc' = "bp_dlock"
  /\ UNCHANGED <<objv, bUpdating, btv, pkt, iov, mtxv, signalled, bUpl,
                 tStampl, ipkl, opkl, tdv, cpc, clocv, ghostv>>

\* new int[numItems] fails: std::bad_alloc leaves the producer.  No frame of
\* the thread (getPacket / readFromSensor, threadMeth or tmContinuous,
\* pthreadWrapper) has a handler, so std::terminate ends the process.
\* TestInterface::getPacket: ++numItems, then the allocation throws.
SRC_Throw ==
  /\ wpc = "src_make"
  /\ srcItems' = srcItems + 1
  /\ Abort
  /\ UNCHANGED <<objv, bUpdating, btv, pkt, iov, mtxv, signalled, wlocv,
                 cancelReq, clocv, ghostv>>

\* readFromSensor: the allocation throws (numItems is incremented already,
\* data is deleted, data_mtx is held).
BT_SensorThrow ==
  /\ wpc = "bt_fill"
  /\ Abort
  /\ UNCHANGED <<objv, bUpdating, btv, bpv, iov, mtxv, signalled, wlocv,
                 cancelReq, clocv, ghostv>>

BP_DLock ==
  /\ wpc = "bp_dlock"
  /\ data_mtx = Free
  /\ data_mtx' = W
  /\ wpc' = "bp_store"
  /\ UNCHANGED <<objv, bUpdating, btv, bpv, iov, upfl_mtx, idata_mtx,
                 odata_mtx, ipkt_lk, signalled, wlocv, tdv, cpc, clocv, ghostv>>

\* What follows the store: threadMeth clears bUpdating, tmContinuous goes
\* to sleep(0) and round again.
AfterStore_clear == "t_lock2"

AfterStore == IF mode = "triggered" THEN "t_lock2" ELSE "c_sleep0"

\* pkt = pkl;
BP_Store ==
  /\ wpc = "bp_store"
  /\ pkt' = pkl
  /\ wpc' = "bp_dunlock"
  /\ UNCHANGED <<objv, bUpdating, btv, srcItems, iov, mtxv, signalled, wlocv,
                 tdv, cpc, clocv, ghostv>>

BP_DUnlock ==
  /\ wpc = "bp_dunlock"
  /\ data_mtx' = Free
  /\ wpc' = AfterStore
  /\ UNCHANGED <<objv, bUpdating, btv, bpv, iov, upfl_mtx, idata_mtx,
                 odata_mtx, ipkt_lk, signalled, wlocv, tdv, cpc, clocv, ghostv>>

\* BufferThread::tmContinuous(): the flag set under upfl_mtx is the local
\* bUpl.
C_Lock ==
  /\ wpc = "c_lock"
  /\ upfl_mtx = Free
  /\ upfl_mtx' = W
  /\ wpc' = "c_set"
  /\ UNCHANGED <<objv, bUpdating, btv, bpv, iov, data_mtx, idata_mtx,
                 odata_mtx, ipkt_lk, signalled, wlocv, tdv, cpc, clocv, ghostv>>

C_Set ==
  /\ wpc = "c_set"
  /\ bUpl' = TRUE
  /\ wpc' = "c_unlock"
  /\ UNCHANGED <<objv, bUpdating, btv, bpv, iov, mtxv, signalled, pkl,
                 tStampl, ipkl, opkl, tdv, cpc, clocv, ghostv>>

C_Unlock ==
  /\ wpc = "c_unlock"
  /\ upfl_mtx' = Free
  /\ wpc' = "src_sleep"
  /\ UNCHANGED <<objv, bUpdating, btv, bpv, iov, data_mtx, idata_mtx,
                 odata_mtx, ipkt_lk, signalled, wlocv, tdv, cpc, clocv, ghostv>>

\* sleep(0), the cancellation point at the end of a continuous cycle.
C_Sleep0 ==
  /\ wpc = "c_sleep0"
  /\ ~cancelReq
  /\ wpc' = "src_sleep"
  /\ UNCHANGED <<objv, bUpdating, btv, bpv, iov, mtxv, signalled, wlocv, tdv,
                 cpc, clocv, ghostv>>

\* IOBuffer::tmContinuous().
IO_ULock ==
  /\ wpc = "io_ulock"
  /\ upfl_mtx = Free
  /\ upfl_mtx' = W
  /\ wpc' = "io_uset"
  /\ UNCHANGED <<objv, bUpdating, btv, bpv, iov, data_mtx, idata_mtx,
                 odata_mtx, ipkt_lk, signalled, wlocv, tdv, cpc, clocv, ghostv>>

IO_USet ==
  /\ wpc = "io_uset"
  /\ bUpdating' = TRUE
  /\ wpc' = "io_uunlock"
  /\ UNCHANGED <<objv, btv, bpv, iov, mtxv, signalled, wlocv, tdv, cpc,
                 clocv, ghostv>>

IO_UUnlock ==
  /\ wpc = "io_uunlock"
  /\ upfl_mtx' = Free
  /\ wpc' = "io_ilock"
  /\ UNCHANGED <<objv, bUpdating, btv, bpv, iov, data_mtx, idata_mtx,
                 odata_mtx, ipkt_lk, signalled, wlocv, tdv, cpc, clocv, ghostv>>

\* pthread_mutex_lock(&ipkt): the object locked is the packet ipkt, not
\* idata_mtx, so callers holding idata_mtx are not excluded.
IO_ILock ==
  /\ wpc = "io_ilock"
  /\ ipkt_lk = Free
  /\ ipkt_lk' = W
  /\ wpc' = "io_check"
  /\ UNCHANGED <<objv, bUpdating, btv, bpv, iov, upfl_mtx, data_mtx,
                 idata_mtx, odata_mtx, signalled, wlocv, tdv, cpc, clocv,
                 ghostv>>

\* while (!idata_new)
IO_Check ==
  /\ wpc = "io_check"
  /\ wpc' = IF idata_new THEN "io_move" ELSE "io_wait"
  /\ UNCHANGED <<objv, bUpdating, btv, bpv, iov, mtxv, signalled, wlocv, tdv,
                 cpc, clocv, ghostv>>

\* pthread_cond_wait(&newipt): the call names no mutex, none is released.
IO_WaitEnter ==
  /\ wpc = "io_wait"
  /\ ~cancelReq
  /\ signalled' = FALSE
  /\ wpc' = "io_blocked"
  /\ UNCHANGED <<objv, bUpdating, btv, bpv, iov, mtxv, wlocv, tdv, cpc, clocv,
                 ghostv>>

IO_Wake ==
  /\ wpc = "io_blocked"
  /\ signalled
  /\ signalled' = FALSE
  /\ wpc' = "io_check"
  /\ UNCHANGED <<objv, bUpdating, btv, bpv, iov, mtxv, wlocv, tdv, cpc, clocv,
                 ghostv>>

\* ipkl = std::move(ipkt);
IO_Move ==
  /\ wpc = "io_move"
  /\ ipkl' = ipkt
  /\ ipkt' = Invalid
  /\ wpc' = "io_clear"
  /\ UNCHANGED <<objv, bUpdating, btv, bpv, opkt, idata_new, odata_new, mtxv,
                 signalled, bUpl, pkl, tStampl, opkl, tdv, cpc, clocv, ghostv>>

IO_Clear ==
  /\ wpc = "io_clear"
  /\ idata_new' = FALSE
  /\ wpc' = "io_iunlock"
  /\ UNCHANGED <<objv, bUpdating, btv, bpv, ipkt, opkt, odata_new, mtxv,
                 signalled, wlocv, tdv, cpc, clocv, ghostv>>

\* pthread_mutex_unlock(&ipkt);
IO_IUnlock ==
  /\ wpc = "io_iunlock"
  /\ ipkt_lk' = Free
  /\ wpc' = "io_process"
  /\ UNCHANGED <<objv, bUpdating, btv, bpv, iov, upfl_mtx, data_mtx,
                 idata_mtx, odata_mtx, signalled, wlocv, tdv, cpc, clocv,
                 ghostv>>

\* opkl = source->runProcess(ipkl);
IO_Process ==
  /\ wpc = "io_process"
  /\ opkl' = RunProcess(ipkl)
  /\ wpc' = "io_olock"
  /\ UNCHANGED <<objv, bUpdating, btv, bpv, iov, mtxv, signalled, bUpl, pkl,
                 tStampl, ipkl, tdv, cpc, clocv, ghostv>>

IO_OLock ==
  /\ wpc = "io_olock"
  /\ odata_mtx = Free
  /\ odata_mtx' = W
  /\ wpc' = "io_store"
  /\ UNCHANGED <<objv, bUpdating, btv, bpv, iov, upfl_mtx, data_mtx,
                 idata_mtx, ipkt_lk, signalled, wlocv, tdv, cpc, clocv, ghostv>>

\* opkt = std::move(opkl);
IO_Store ==
  /\ wpc = "io_store"
  /\ opkt' = opkl
  /\ opkl' = Invalid
  /\ wpc' = "io_mark"
  /\ UNCHANGED <<objv, bUpdating, btv, bpv, ipkt, idata_new, odata_new, mtxv,
                 signalled, bUpl, pkl, tStampl, ipkl, tdv, cpc, clocv, ghostv>>

IO_Mark ==
  /\ wpc = "io_mark"
  /\ odata_new' = TRUE
  /\ outPending' = TRUE
  /\ wpc' = "io_ounlock"
  /\ UNCHANGED <<objv, bUpdating, btv, bpv, ipkt, opkt, idata_new, mtxv,
                 signalled, wlocv, tdv, cpc, clocv, accepted, started,
                 provided, lastIn>>

IO_OUnlock ==
  /\ wpc = "io_ounlock"
  /\ odata_mtx' = Free
  /\ wpc' = "io_sleep0"
  /\ UNCHANGED <<objv, bUpdating, btv, bpv, iov, upfl_mtx, data_mtx,
                 idata_mtx, ipkt_lk, signalled, wlocv, tdv, cpc, clocv, ghostv>>

IO_Sleep0 ==
  /\ wpc = "io_sleep0"
  /\ ~cancelReq
  /\ wpc' = "io_ilock"
  /\ UNCHANGED <<objv, bUpdating, btv, bpv, iov, mtxv, signalled, wlocv, tdv,
                 cpc, clocv, ghostv>>

----------------------------------------------------------------------------
\* Cancellation and teardown.

\* The calls of the worker that are cancellation points: pthread_cond_wait
\* (entered or blocked in) and sleep.
CondWaitPcs == {"t_wait", "t_blocked"}

\* No call of the worker acts on a cancel.
CancelPoints_none == {}

CancelPoints == CondWaitPcs \cup {"bt_sleep", "src_sleep", "c_sleep0",
                                  "io_wait", "io_blocked", "io_sleep0"}

\* The worker acts on a pending pthread_cancel at a cancellation point.  A
\* thread cancelled in pthread_cond_wait(&read_cond, &upfl_mtx) has the
\* mutex re-acquired first; no cleanup handler releases it.
ActOnCancel ==
  /\ cancelReq
  /\ wpc \in CancelPoints
  /\ IF wpc = "t_blocked"
       THEN upfl_mtx = Free /\ upfl_mtx' = W
       ELSE UNCHANGED upfl_mtx
  /\ exitAt' = wpc
  /\ wpc' = "terminated"
  /\ UNCHANGED <<objv, bUpdating, btv, bpv, iov, data_mtx, idata_mtx,
                 odata_mtx, ipkt_lk, signalled, wlocv, cancelReq, dpc, cpc,
                 clocv, ghostv>>

\* The destructor: pthread_cancel(read_thread);
Dtor_Cancel ==
  /\ dpc = "live"
  /\ mode # "none"
  /\ \A c \in Callers : cpc[c] = "idle"
  /\ cancelReq' = TRUE
  /\ dpc' = "join"
  /\ UNCHANGED <<objv, bUpdating, btv, bpv, iov, mtxv, signalled, wpc, wlocv,
                 exitAt, cpc, clocv, ghostv>>

\* pthread_join returns once the thread has terminated.
JoinReturns_nowait == TRUE

JoinReturns == wpc = "terminated"

Dtor_Join ==
  /\ dpc = "join"
  /\ JoinReturns
  /\ dpc' = "destroy"
  /\ UNCHANGED <<objv, bUpdating, btv, bpv, iov, mtxv, signalled, wpc, wlocv,
                 cancelReq, exitAt, cpc, clocv, ghostv>>

\* The rest of the destructor: the condition variable and the mutexes are
\* destroyed; BufferThreaded also does delete[] data.
Dtor_Destroy ==
  /\ dpc = "destroy"
  /\ dpc' = "gone"
  /\ data' = IF cls = "BufferThreaded" THEN Dangling ELSE data
  /\ UNCHANGED <<objv, bUpdating, numItems, tStamp, bpv, iov, mtxv, signalled,
                 wpc, wlocv, cancelReq, exitAt, cpc, clocv, ghostv>>

----------------------------------------------------------------------------
\* The specifications.

CommonCall(c) == IU_Lock(c)

SensorCall(c) ==
  \/ RD_Lock(c) \/ GD_Lock(c) \/ GT_Lock(c) \/ GP_Lock(c) \/ CC_Lock(c)

PipelineCall(c) ==
  \/ II_Lock(c) \/ ON_Lock(c) \/ PP_Lock(c) \/ GO_Lock(c)

CommonCont(c) ==
  \/ IU_Read(c) \/ IU_Unlock(c) \/ Return(c)

SensorCont(c) ==
  \/ RD_Test(c) \/ RD_UnlockDrop(c) \/ RD_UnlockAcc(c) \/ RD_Signal(c)
  \/ GD_Copy(c) \/ GD_Unlock(c) \/ GD_Count(c)
  \/ GT_Read(c) \/ GT_Unlock(c)
  \/ GP_Copy(c) \/ GP_Unlock(c)
  \/ CC_Count(c) \/ CC_CopyNone(c) \/ CC_CopyLands(c) \/ CC_CopyFaults(c)
  \/ CC_Stamp(c) \/ CC_Unlock(c) \/ CC_Init(c)

PipelineCont(c) ==
  \/ II_Read(c) \/ II_Unlock(c)
  \/ ON_Read(c) \/ ON_Unlock(c)
  \/ PP_Move(c) \/ PP_Flag(c) \/ PP_Unlock(c) \/ PP_Signal(c)
  \/ GO_Test(c) \/ GO_Move(c) \/ GO_Clear(c) \/ GO_Unlock(c)

TriggeredStep ==
  \/ T_Lock \/ T_WaitEnter \/ T_Wake \/ T_Read \/ T_Unlock \/ T_Test
  \/ BT_Sleep \/ BT_Time \/ BT_DLock \/ BT_Delete \/ BT_SensorInc
  \/ BT_SensorFill \/ BT_Stamp \/ BT_DUnlock
  \/ T_Lock2 \/ T_Clear \/ T_Unlock2

ProduceStep ==
  \/ SRC_Sleep \/ SRC_Make \/ BP_DLock \/ BP_Store \/ BP_DUnlock

ContinuousStep ==
  \/ C_Lock \/ C_Set \/ C_Unlock \/ C_Sleep0

SensorWorker == TriggeredStep \/ ProduceStep \/ ContinuousStep

\* Nothing obliges the producer to fail.
ProducerThrows == SRC_Throw \/ BT_SensorThrow

PipelineWorker ==
  \/ IO_ULock \/ IO_USet \/ IO_UUnlock \/ IO_ILock \/ IO_Check
  \/ IO_WaitEnter \/ IO_Wake \/ IO_Move \/ IO_Clear \/ IO_IUnlock
  \/ IO_Process \/ IO_OLock \/ IO_Store \/ IO_Mark \/ IO_OUnlock
  \/ IO_Sleep0

Teardown == Dtor_Cancel \/ Dtor_Join \/ Dtor_Destroy

\* An object of any of the three classes.
Next ==
  \/ SpawnThreads
  \/ RunContinuous
  \/ StartAgain
  \/ \E c \in Callers : CommonCall(c) \/ SensorCall(c) \/ PipelineCall(c)
  \/ \E c \in Callers : CommonCont(c) \/ SensorCont(c) \/ PipelineCont(c)
  \/ SensorWorker
  \/ ProducerThrows
  \/ PipelineWorker
  \/ ActOnCancel
  \/ SpuriousWake
  \/ Teardown

Spec == Init /\ [][Next]_vars

\* A BufferThreaded or a BufferThread.
SensorInit == InitOf({"BufferThreaded", "BufferThread"})

SensorNext ==
  \/ SpawnThreads
  \/ RunContinuous
  \/ StartAgain
  \/ \E c \in Callers : CommonCall(c) \/ SensorCall(c)
  \/ \E c \in Callers : CommonCont(c) \/ SensorCont(c)
  \/ SensorWorker
  \/ ProducerThrows
  \/ ActOnCancel
  \/ SpuriousWake
  \/ Teardown

SensorSpec == SensorInit /\ [][SensorNext]_vars

\* An IOBuffer.
PipelineInit == InitOf({"IOBuffer"})

PipelineNext ==
  \/ RunContinuous
  \/ StartAgain
  \/ \E c \in Callers : CommonCall(c) \/ PipelineCall(c)
  \/ \E c \in Callers : CommonCont(c) \/ PipelineCont(c)
  \/ PipelineWorker
  \/ ActOnCancel
  \/ SpuriousWake
  \/ Teardown

PipelineSpec == PipelineInit /\ [][PipelineNext]_vars

\* Scheduling: the worker thread keeps running (and acts on a pending
\* cancel) and is not starved of a mutex that is free again and again, and
\* a caller inside a call finishes it.  Nothing obliges a caller to make a
\* call, the owner to destroy the object, or a condition wait to return
\* spuriously.
SensorFairSpec ==
  /\ SensorSpec
  /\ SF_vars(SensorWorker \/ ActOnCancel)
  /\ \A c \in Callers : WF_vars(CommonCont(c) \/ SensorCont(c))

\* The same scheduling for an IOBuffer.
PipelineFairSpec ==
  /\ PipelineSpec
  /\ SF_vars(PipelineWorker \/ ActOnCancel)
  /\ \A c \in Callers : WF_vars(CommonCont(c) \/ PipelineCont(c))

\* Scheduling during teardown, for any of the three classes: the worker
\* keeps running and acts on the pending cancel, and pthread_join returns
\* when it can.
TeardownFairSpec ==
  /\ Spec
  /\ WF_vars(SensorWorker \/ PipelineWorker \/ ActOnCancel)
  /\ WF_vars(Dtor_Join)

----------------------------------------------------------------------------
\* Properties.

\* The pcs of a triggered production cycle: from the test of bUpl that
\* starts it to the unlock after bUpdating = false.
TriggeredCyclePcs ==
  {"bt_sleep", "bt_time", "bt_dlock", "bt_delete", "bt_inc", "bt_fill",
   "bt_stamp", "bt_dunlock", "src_sleep", "src_make", "bp_dlock", "bp_store",
   "bp_dunlock", "t_lock2", "t_clear"}

\* The runs the liveness claims do not speak of: the object was started
\* twice, or the producer did not return.
OutOfContract == nthreads > 1 \/ wpc = "aborted"

\* C1: in triggered mode every accepted readData() (the caller holds
\* upfl_mtx and finds bUpdating false: it is the (n+1)-th accepted request)
\* is eventually followed by the completion of its production cycle
\* (bUpdating false again), unless the object is torn down first, was
\* started twice, or its producer did not return.
C1_AcceptedRequestServed ==
  \A n \in 0..(MaxCycles - 1) :
    (\E c \in Callers :
        /\ cpc[c] = "rd_test"
        /\ ~bUpdating
        /\ mode = "triggered"
        /\ accepted = n)
      ~> ((accepted > n /\ ~bUpdating) \/ cancelReq \/ OutOfContract)

\* C2: coalescing.  A readData() that finds bUpdating true is dropped: it
\* changes neither bUpdating nor the buffer and sends no signal; a request is
\* accepted only when every earlier accepted request has had its cycle
\* started, so at most one accepted request is outstanding; production
\* cycles never outnumber accepted requests; and a cycle in flight on a
\* triggered stage keeps bUpdating true and is the one cycle of the latest
\* accepted request, however many requests overlap it.
C2_DropStep(c) ==
  /\ cpc[c] \in {"rd_test", "rd_drop"}
  /\ cpc'[c] # cpc[c]
  /\ cpc'[c] # "aborted"
  /\ (cpc[c] = "rd_test" => bUpdating)

C2_Coalescing ==
  /\ [](/\ started <= accepted
        /\ accepted - started <= 1
        /\ (mode = "triggered" /\ wpc \in TriggeredCyclePcs =>
              bUpdating /\ started = accepted))
  /\ [][\A c \in Callers :
          C2_DropStep(c) =>
            /\ cpc'[c] \in {"rd_drop", "idle"}
            /\ UNCHANGED <<bUpdating, signalled, accepted, started, btv, bpv,
                           wpc>>]_vars

\* A request is dropped while the one production cycle it overlaps is in
\* flight.
C2_Witness ==
  \E c \in Callers :
    /\ cpc[c] = "rd_drop"
    /\ mode = "triggered"
    /\ wpc \in TriggeredCyclePcs
    /\ accepted = 1
    /\ started = 1

\* The outputs runProcess gives for the inputs provided so far (10 and 18
\* for the inputs 5 and 9).
ProvidedOutputs == {RunProcess(v) : v \in provided}

\* C3: latest-wins.  Once an input has been provided, every consume of the
\* worker obtains the input most recently provided, and every output a
\* caller obtains from getPacket is runProcess of a provided input.
C3_LatestWins ==
  /\ [](\A c \in Callers :
          cpc[c] = "go_ret" /\ retval[c] => cpkt[c] \in ProvidedOutputs)
  /\ [][wpc = "io_move" /\ wpc' = "io_clear" /\ provided # {}
          => ipkl' = lastIn]_vars

\* C4: a reader gets the complete value of one publish: the count getData
\* returns is the length of the array it copied, which is the array of one
\* publish, and getPacket returns a packet the source produced.
C4_CompleteValue ==
  \A c \in Callers :
    /\ cpc[c] = "gd_ret" =>
         /\ retn[c] = Len(dataIn[c])
         /\ dataIn[c] = Iota(retn[c])
    /\ cpc[c] = "gp_ret" => cpkt[c] \in 0..srcItems

\* C5: IOBuffer::getPacket finds a new output (and moves it out) exactly
\* when the worker has published one since the last successful getPacket,
\* and leaves *output unchanged when it returns false.
C5_TrueIffPublished ==
  \A c \in Callers :
    /\ cpc[c] = "go_move" => outPending
    /\ cpc[c] = "go_unlock" /\ ~retval[c] => ~outPending /\ cpkt[c] = Empty

\* C6: runProcess is invoked only on a value a caller has provided.
C6_ProcessOnlyProvided ==
  wpc = "io_process" => ipkl \in provided

\* The pcs of the first critical section of tmContinuous.
ContinuousEntryPcs ==
  {"c_lock", "c_set", "c_unlock", "io_ulock", "io_uset", "io_uunlock"}

\* C7: in continuous mode, an isUpdating() that reads the flag once the
\* worker has left the first critical section of tmContinuous returns true.
C7_ContinuousIsUpdating ==
  \A c \in Callers :
    /\ mode = "continuous"
    /\ wpc \notin ContinuousEntryPcs
    /\ cpc[c] = "iu_unlock"
    => retval[c]

\* The pcs at which the worker is inside the external producer or transform
\* call: readFromSensor, TestInterface::getPacket, runProcess.
ProducerCallPcs == {"bt_inc", "bt_fill", "src_sleep", "src_make", "io_process"}

HeldByWorker ==
  {m \in {"upfl_mtx", "data_mtx", "idata_mtx", "odata_mtx"} :
     \/ m = "upfl_mtx" /\ upfl_mtx = W
     \/ m = "data_mtx" /\ data_mtx = W
     \/ m = "idata_mtx" /\ idata_mtx = W
     \/ m = "odata_mtx" /\ odata_mtx = W}

\* C8: while the worker executes the producer or transform call it holds
\* none of the mutexes of the stage.
C8_NoMutexInProducer ==
  wpc \in ProducerCallPcs => HeldByWorker = {}

\* C9: once the destructor's pthread_join has returned the worker has
\* terminated, and from then on no step calls the producer or writes the
\* buffer or the output slot; data changes only by the destructor's own
\* delete[].
JoinReturned == dpc \in {"destroy", "gone"}

C9_NoWriteAfterTeardown ==
  /\ [](JoinReturned => wpc = "terminated")
  /\ [][JoinReturned =>
          /\ UNCHANGED <<pkt, numItems, tStamp, opkt, odata_new, srcItems,
                         started, wpc>>
          /\ (data' # data => dpc = "destroy" /\ dpc' = "gone")]_vars

\* The object has been torn down after its worker had published.
C9_Witness ==
  /\ dpc = "gone"
  /\ wpc = "terminated"
  /\ (numItems > 0 \/ pkt # Empty \/ outPending)

\* The pcs at which the worker is waiting or between two cycles.
BetweenCyclesPcs ==
  {"t_wait", "t_blocked", "c_sleep0", "io_wait", "io_blocked", "io_sleep0"}

\* C10: the worker terminates only while waiting or between cycles, never
\* between the start of a production step and its publish.
C10_ExitBetweenCycles ==
  wpc = "terminated" => exitAt \in BetweenCyclesPcs

\* C11: when the worker terminates because of the destructor's cancel it
\* holds none of upfl_mtx, data_mtx, idata_mtx, odata_mtx.
C11_ExitHoldsNoMutex ==
  wpc = "terminated" => HeldByWorker = {}

\* C12: a stage has at most one worker thread: a second start is refused.
C12_OneWorker ==
  nthreads <= 1

\* The producer call of the worker has failed.
ProducerFailed == exitAt \in {"src_make", "bt_fill"}

\* C13: a step in which the producer of a triggered cycle fails publishes
\* nothing, takes the worker to the release of bUpdating (and from there back
\* to the wait), and ends neither the worker nor the object.
C13_FailureKeepsWorker ==
  [][~ProducerFailed /\ ProducerFailed' /\ mode = "triggered" =>
       /\ wpc' = "t_lock2"
       /\ dpc' = dpc
       /\ UNCHANGED <<pkt, data, numItems, tStamp>>]_vars

\* The value readers get is the one the n-th production cycle stored.
StoredIsCycle(n) ==
  IF cls = "BufferThreaded"
    THEN /\ numItems = n
         /\ data = Iota(n)
         /\ (n > 0 => tStamp = n)
    ELSE /\ pkt = n
         /\ srcItems = n

\* C14: in triggered mode, until the object is destroyed, bUpdating is false
\* only when the value of the cycle of the latest accepted request is
\* stored; bUpdating is cleared by
\* the worker alone, after the store and with data_mtx released; and the
\* stored value never goes back to an older one.  So a caller that had a
\* request accepted and then sees isUpdating() false reads a value produced
\* after its request.
C14_StoreBeforeClear ==
  /\ [](mode = "triggered" /\ ~bUpdating /\ dpc # "gone" =>
          StoredIsCycle(accepted))
  /\ [][bUpdating /\ ~bUpdating' =>
          /\ wpc = "t_clear"
          /\ data_mtx # W
          /\ StoredIsCycle(started)
          /\ started = accepted]_vars
  /\ [][mode = "triggered" => pkt' >= pkt /\ numItems' >= numItems]_vars

\* A caller reads the value of the first cycle after that cycle has cleared
\* bUpdating.
C14_Witness ==
  /\ mode = "triggered"
  /\ accepted = 1
  /\ ~bUpdating
  /\ \E c \in Callers :
        \/ cpc[c] = "gp_ret" /\ cpkt[c] = 1
        \/ cpc[c] = "gd_ret" /\ dataIn[c] = Iota(1)

\* The number of producer calls made: readFromSensor increments numItems,
\* TestInterface::getPacket its own numItems.
Invocations == IF cls = "BufferThreaded" THEN numItems ELSE srcItems

\* C15: the triggered worker produces only in a cycle it entered from the
\* test of the flag it read, under upfl_mtx, after the condition wait
\* returned, and only when that flag and bUpdating are true; it calls the
\* producer at most once per cycle, and cycles never outnumber the accepted
\* readData() calls, and equal them whenever bUpdating is false; after a
\* cycle, and after a wake-up with the flag false, it goes back to the wait.
C15_CycleOrder ==
  /\ [](mode = "triggered" =>
          /\ Invocations <= started
          /\ started <= accepted
          /\ (~bUpdating => Invocations = accepted)
          /\ (wpc = "t_read" => upfl_mtx = W))
  /\ [][mode = "triggered" /\ wpc' # wpc =>
          /\ (wpc' = "t_read" => wpc = "t_blocked")
          /\ (wpc' = CycleEntry => wpc = "t_test" /\ bUpl /\ bUpdating)
          /\ (wpc' \in {"bt_inc", "src_make"} =>
                 Invocations = started - 1)
          /\ (wpc' = "t_lock" =>
                 \/ wpc = "t_unlock2"
                 \/ wpc = "t_test" /\ ~bUpl /\ UNCHANGED started)]_vars

\* The worker woke up after a completed cycle, read the flag false, and
\* produces nothing.
C15_Witness ==
  /\ mode = "triggered"
  /\ wpc = "t_test"
  /\ ~bUpl
  /\ started = 1
  /\ Invocations = 1

\* The pcs at which the next statement of a caller, or of the worker, reads
\* or writes a shared field, by the mutex designated for the field.
CallerAccessPcs ==
  [upfl |-> {"iu_read", "rd_test"},
   data |-> {"gd_copy", "gd_count", "gt_read", "gp_copy"},
   idata |-> {"ii_read", "pp_move", "pp_flag"},
   odata |-> {"on_read", "go_test", "go_move", "go_clear"}]

WorkerAccessPcs ==
  [upfl |-> {"t_read", "t_clear", "io_uset"},
   data |-> {"bt_delete", "bt_inc", "bt_fill", "bt_stamp", "bp_store"},
   idata |-> {"io_check", "io_move", "io_clear"},
   odata |-> {"io_store", "io_mark"}]

\* C16: a thread about to read or write bUpdating holds upfl_mtx; data,
\* numItems, tStamp or pkt: data_mtx; ipkt or idata_new: idata_mtx; opkt or
\* odata_new: odata_mtx.
C16_AccessUnderMutex ==
  /\ \A c \in Callers :
        /\ cpc[c] \in CallerAccessPcs.upfl => upfl_mtx = c
        /\ cpc[c] \in CallerAccessPcs.data => data_mtx = c
        /\ cpc[c] \in CallerAccessPcs.idata => idata_mtx = c
        /\ cpc[c] \in CallerAccessPcs.odata => odata_mtx = c
  /\ wpc \in WorkerAccessPcs.upfl => upfl_mtx = W
  /\ wpc \in WorkerAccessPcs.data => data_mtx = W
  /\ wpc \in WorkerAccessPcs.idata => idata_mtx = W
  /\ wpc \in WorkerAccessPcs.odata => odata_mtx = W

\* C17: with the worker of an IOBuffer running, a providePacket that has
\* stored its input and set idata_new is eventually followed by the worker
\* publishing the output of a provided input, unless the object is torn
\* down or was started twice.
C17_ProvidedIsProcessed ==
  \A c \in Callers :
    (cpc[c] = "pp_unlock" /\ mode = "continuous")
      ~> (\/ wpc = "io_mark" /\ opkt \in ProvidedOutputs
          \/ cancelReq
          \/ OutOfContract)

\* C18: once the destructor has called pthread_cancel, the worker terminates
\* and pthread_join returns (unless the producer fails to return); with the
\* cancel pending the worker passes no sleep and enters no condition wait
\* (a wait it is blocked in may still return), so it runs on for at most the
\* production step in flight.
C18_TeardownTerminates ==
  /\ cancelReq ~> (JoinReturned \/ wpc = "aborted")
  /\ [][cancelReq /\ wpc \in CancelPoints \ {"t_blocked", "io_blocked"}
            /\ wpc' # wpc =>
          wpc' = "terminated"]_vars

\* The join has returned for a worker that was cancelled out of a production
\* cycle or out of its wait.
C18_Witness ==
  /\ JoinReturned
  /\ wpc = "terminated"
  /\ exitAt \in {"bt_sleep", "src_sleep", "t_blocked", "io_blocked",
                  "c_sleep0", "io_sleep0"}

\* The pcs of tmContinuous of BufferThread.
ContinuousPcs ==
  {"c_lock", "c_set", "c_unlock", "src_sleep", "src_make", "bp_dlock",
   "bp_store", "bp_dunlock", "c_sleep0"}

\* A step of caller c inside readData().
ReadDataStep(c) ==
  /\ cpc[c] \in {"idle", "rd_test", "rd_drop", "rd_acc", "rd_signal"}
  /\ cpc'[c] \in {"rd_test", "rd_drop", "rd_acc", "rd_signal", "idle"}
  /\ cpc'[c] # cpc[c]

\* C19: a BufferThread in continuous mode publishes packet after packet
\* with no readData() call needed (up to the MaxCycles packets of the
\* model, unless it is torn down, started twice or its producer fails);
\* its worker stays in the loop of tmContinuous and never waits on the
\* condition variable; and no step of readData() changes the worker, the
\* producer or the packet.
C19_ContinuousRepeats ==
  /\ \A n \in 0..(MaxCycles - 1) :
        (mode = "continuous" /\ pkt = n)
          ~> (pkt > n \/ cancelReq \/ OutOfContract)
  /\ [](mode = "continuous" /\ cls = "BufferThread" =>
          wpc \in ContinuousPcs \cup {"terminated", "aborted", "undefined"})
  /\ [][\A c \in Callers :
          mode = "continuous" /\ ReadDataStep(c) =>
            UNCHANGED <<wpc, wlocv, srcItems, pkt, signalled, started>>]_vars

\* The continuous worker has published MaxCycles packets and no readData()
\* was ever accepted.
C19_Witness ==
  /\ mode = "continuous"
  /\ pkt = MaxCycles
  /\ accepted = 0
  /\ ~bUpdating

\* The pcs inside the copying reads and the status reads, and the pcs at
\* which they are entered.
ReadEntryPcs ==
  {"iu_read", "gd_copy", "gt_read", "gp_copy", "ii_read", "on_read"}

ReadPcs ==
  ReadEntryPcs \cup
    {"iu_unlock", "gd_unlock", "gd_count", "gt_unlock", "gp_unlock",
     "ii_unlock", "on_unlock", "iu_ret", "gd_ret", "gt_ret", "gp_ret",
     "ii_ret", "on_ret"}

\* A step of caller c inside one of these reads.
ReadStep(c) ==
  /\ cpc'[c] # cpc[c]
  /\ cpc'[c] # "aborted"
  /\ \/ cpc[c] \in ReadPcs
     \/ cpc[c] = "idle" /\ cpc'[c] \in ReadEntryPcs

\* C20: no step of getPacket (BufferThread), getData, getTimeStamp,
\* isUpdating, isInputUnsed or isOutputNew changes a shared field, and what
\* each of them reads is the value the field has at that step, so two reads
\* with no write in between get equal results.
C20_ReadsArePure ==
  [][\A c \in Callers :
       ReadStep(c) =>
         /\ UNCHANGED <<bUpdating, data, numItems, tStamp, pkt, srcItems,
                        ipkt, opkt, idata_new, odata_new, wpc, wlocv,
                        signalled>>
         /\ (cpc[c] = "iu_read" => retval'[c] = bUpdating)
         /\ (cpc[c] = "ii_read" => retval'[c] = idata_new)
         /\ (cpc[c] = "on_read" => retval'[c] = odata_new)
         /\ (cpc[c] = "gp_copy" => cpkt'[c] = pkt)
         /\ (cpc[c] = "gt_read" => retn'[c] = tStamp)
         /\ (cpc[c] = "gd_copy" =>
                dataIn'[c] = [i \in 1..numItems |-> data[i]])]_vars

\* Both callers have read the same published packet with getPacket(), and
\* it is still the stored one.
C20_Witness ==
  /\ \A c \in Callers : cpc[c] = "gp_ret" /\ cpkt[c] = pkt
  /\ pkt > Empty

\* The most recently provided input is still in the input slot: it has not
\* been moved out by the worker (and one was provided).
InputUnconsumed == ipkt \in Inputs

\* C21: idata_new is true exactly when the most recently provided input
\* has not been moved out by the worker (outside the two-statement updates
\* of providePacket and of the worker's consume, which set the packet and
\* the flag one after the other); it becomes true only in providePacket and
\* false only in the worker's consume.
C21_InputFlagMeaning ==
  /\ [](/\ ~OutOfContract
        /\ \A c \in Callers : cpc[c] # "pp_flag"
        /\ wpc # "io_clear"
        => (idata_new <=> InputUnconsumed))
  /\ [][/\ (~idata_new /\ idata_new' => \E c \in Callers : cpc[c] = "pp_flag")
        /\ (idata_new /\ ~idata_new' => wpc = "io_clear")]_vars

\* The statements of the copy constructor after the lock.
CopyPcs == {"cc_count", "cc_copy", "cc_stamp", "cc_unlock", "cc_init"}

\* Caller c executes a statement of the copy constructor and the process
\* goes on.
CopyStep(c) ==
  /\ cpc'[c] # cpc[c]
  /\ cpc[c] \in CopyPcs \/ cpc'[c] = "cc_count"
  /\ cpc'[c] # "aborted"

\* C22: copy-constructing a BufferThreaded always yields a copy (the
\* construction does not end the process); what it has read when it unlocks
\* the source's data_mtx is the source's numItems, items and tStamp of that
\* one moment, also with a worker publishing; the finished copy has its
\* items, bUpdating == false, and no statement of the constructor changes
\* the source's flag, buffer, worker or trigger.
C22_CopyIsSnapshot ==
  /\ [](newBuf.state # "faulted")
  /\ [](\A c \in Callers : cpc[c] = "cc_unlock" =>
          /\ newBuf.numItems = numItems
          /\ \A i \in 1..numItems : newBuf.data[i] = data[i]
          /\ newBuf.tStamp = tStamp)
  /\ [](newBuf.state = "built" =>
          /\ ~newBuf.bUpdating
          /\ newBuf.numItems > 0 => newBuf.data = Iota(newBuf.numItems))
  /\ [][\A c \in Callers : CopyStep(c) =>
          UNCHANGED <<bUpdating, btv, mode, nthreads, wpc, upfl_mtx,
                      signalled>>]_vars

\* The worker moves the input slot out (IOBuffer.h:217).
ConsumeStep == wpc = "io_move" /\ wpc' = "io_clear"

\* The worker moves its output into the output slot (IOBuffer.h:225).
StoreStep == wpc = "io_store" /\ wpc' = "io_mark"

\* Caller c moves the output slot out (IOBuffer.h:175).
ObtainStep(c) == cpc[c] = "go_move" /\ cpc'[c] = "go_clear"

\* C23: the inputs the worker passes to runProcess are a subsequence of the
\* inputs given to providePacket: the slot has one place, so this says that
\* every consume takes the input of the most recent providePacket and that
\* no consume has taken it before (the slot then holds neither the default
\* packet nor a moved-from one).  Every store puts runProcess of the input
\* consumed in that cycle into the output slot, and every output getPacket
\* moves out is a stored one that no getPacket has taken before.
C23_ProcessedSubsequence ==
  /\ [][ConsumeStep => InputUnconsumed /\ ipkt = lastIn]_vars
  /\ [][StoreStep => ipkl \in provided /\ opkt' = RunProcess(ipkl)]_vars
  /\ [][\A c \in Callers : ObtainStep(c) => opkt \in ProvidedOutputs]_vars

Threads == Callers \cup {W}

\* The mutexes of the stage thread t has locked.
Holds(t) ==
  {m \in {"upfl_mtx", "data_mtx", "idata_mtx", "odata_mtx"} :
     \/ m = "upfl_mtx" /\ upfl_mtx = t
     \/ m = "data_mtx" /\ data_mtx = t
     \/ m = "idata_mtx" /\ idata_mtx = t
     \/ m = "odata_mtx" /\ odata_mtx = t}

\* The statements between a pthread_mutex_lock and the matching
\* pthread_mutex_unlock (the unlock included), of a caller and of the worker.
\* None of these sections has a loop or a blocking call that keeps the
\* mutex: pthread_cond_wait(&read_cond, &upfl_mtx) gives it up.
CallerCriticalPcs ==
  {"iu_read", "iu_unlock", "rd_test", "rd_drop", "rd_acc",
   "gd_copy", "gd_unlock", "gt_read", "gt_unlock", "gp_copy", "gp_unlock",
   "cc_count", "cc_copy", "cc_stamp", "cc_unlock",
   "ii_read", "ii_unlock", "on_read", "on_unlock",
   "pp_move", "pp_flag", "pp_unlock",
   "go_test", "go_move", "go_clear", "go_unlock"}

WorkerCriticalPcs ==
  {"t_wait", "t_read", "t_unlock",
   "bt_delete", "bt_inc", "bt_fill", "bt_stamp", "bt_dunlock",
   "t_clear", "t_unlock2", "bp_store", "bp_dunlock",
   "c_set", "c_unlock", "io_uset", "io_uunlock",
   "io_store", "io_mark", "io_ounlock"}

\* The worker is at a pthread_mutex_lock of one of the stage's mutexes, or
\* blocked in the condition wait that takes upfl_mtx again when it returns.
WorkerLockPcs ==
  {"t_lock", "t_blocked", "t_lock2", "bt_dlock", "bp_dlock", "c_lock",
   "io_ulock", "io_olock"}

\* Thread t takes a step.
StepOf(t) == IF t = W THEN wpc' # wpc ELSE cpc'[t] # cpc[t]

\* Mutex value m (its holder, or Free) changes from a holder.
Released(m, n) == m # Free /\ n # m

\* C24: no thread holds two of the stage's mutexes at once; a thread holds
\* a mutex only inside one of the loop-free sections between a lock and
\* its unlock (so not when it is between calls, at the head of its loop,
\* or has terminated), and a mutex is released in a step of the thread that
\* holds it; a thread that waits for a mutex holds none, so no state is a
\* lock-ordering deadlock.
C24_NoLockOrderDeadlock ==
  /\ [](\A t \in Threads : Cardinality(Holds(t)) <= 1)
  /\ [](~OutOfContract =>
          /\ \A c \in Callers :
                cpc[c] \notin CallerCriticalPcs => Holds(c) = {}
          /\ wpc \notin WorkerCriticalPcs => Holds(W) = {})
  /\ [](wpc \in WorkerLockPcs => Holds(W) = {})
  /\ [][/\ Released(upfl_mtx, upfl_mtx') => StepOf(upfl_mtx)
        /\ Released(data_mtx, data_mtx') => StepOf(data_mtx)
        /\ Released(idata_mtx, idata_mtx') => StepOf(idata_mtx)
        /\ Released(odata_mtx, odata_mtx') => StepOf(odata_mtx)]_vars

====
